---- MODULE Spec2Model ----
(***************************************************************************)
(* Model of the real-time session and delivery subsystem of src/server.js: *)
(* the socket.io handlers (authenticate, send-message, disconnect), the    *)
(* REST login and REST send handlers, and the SIGINT shutdown sweep, run   *)
(* on node's single-threaded event loop.  A handler runs without           *)
(* interruption up to its next `await`; every suspended handler is a       *)
(* record in `tasks`, and one action resumes it when the awaited call      *)
(* (a store call, bcrypt) completes.  Store calls complete in any order    *)
(* and may fail.                                                           *)
(***************************************************************************)
EXTENDS Integers, Sequences, FiniteSets, TLC

(* ------------------------------ bounds -------------------------------- *)
MaxClock == 1
MaxRequests == 3
MaxFail == 1
MaxInflight == 2

(* --------------------------- program constants ------------------------ *)
\* messageSchema.content.maxLength
MaxContentLen == 1000

(* ------------------------------ universe ------------------------------ *)
Users == {"u1", "u2"}
\* the subject of a validly signed token whose user document is gone
UnknownUser == "u9"
Sockets == {"c1", "c2"}
None == "none"

\* user.username of the stored user document
Username(u) == "name_" \o u

\* the room name `user_${id}`
Room(u) == "user_" \o u

(* ------------------------------ strings ------------------------------- *)
\* A string is a sequence of runs [ch, n]: the character ch repeated n > 0
\* times, adjacent runs having different characters.
Sp == " "
Run(c, k) == [ch |-> c, n |-> k]

RECURSIVE StrLen(_)
StrLen(s) == IF s = <<>> THEN 0 ELSE Head(s).n + StrLen(Tail(s))

RECURSIVE TrimStart(_)
TrimStart(s) ==
  IF s = <<>> THEN <<>>
  ELSE IF Head(s).ch = Sp THEN TrimStart(Tail(s)) ELSE s

RECURSIVE TrimEnd(_)
TrimEnd(s) ==
  IF s = <<>> THEN <<>>
  ELSE IF s[Len(s)].ch = Sp THEN TrimEnd(SubSeq(s, 1, Len(s) - 1)) ELSE s

\* String.prototype.trim
Trim(s) == TrimEnd(TrimStart(s))

\* the value `undefined` where a string is expected
Undefined == <<Run("", 0)>>

\* JavaScript truthiness of a string value
Truthy(s) == s /= Undefined /\ s /= <<>>

Hello == <<Run("h", 5)>>
Padded(s) == <<Run(Sp, 1)>> \o s \o <<Run(Sp, 2)>>
Blank == <<Run(Sp, 3)>>
AtCap == <<Run("x", MaxContentLen)>>
OverCap == <<Run("x", MaxContentLen + 1)>>


(* ------------------------------- state -------------------------------- *)
VARIABLES
  now,             \* the server clock read by new Date()
  users,           \* User collection: user id -> [isOnline, lastSeen]
  messages,        \* Message collection, in insertion order
  connectedUsers,  \* the registry Map, entries in insertion order
  sockets,         \* socket objects: state, userId, username, rooms joined
  tasks,           \* suspended handler invocations
  emitted,         \* every event emitted / HTTP response sent, in order
  nextId,          \* next ObjectId handed out by new Message()
  shutdown,        \* the SIGINT handler: pc, Map iterator position, user
  used             \* requests received and store failures drawn so far

vars == <<now, users, messages, connectedUsers, sockets, tasks, emitted,
          nextId, shutdown, used>>

NoMsg ==
  [id |-> 0, sender |-> None, receiver |-> None, content |-> <<>>,
   messageType |-> "text", delivered |-> FALSE, read |-> FALSE,
   createdAt |-> 0, via |-> None]

\* a suspended handler invocation
Task(tid, kind, pc, sock, uid, snap, stamp, msg) ==
  [tid |-> tid, kind |-> kind, pc |-> pc, sock |-> sock, uid |-> uid,
   snap |-> snap, stamp |-> stamp, msg |-> msg]

\* one emitted event: its name, its target (a room, a socket, "broadcast"
\* or "http"), the connections that actually receive it, and its payload
Event(kind, to, rcpt, text, user, msg) ==
  [kind |-> kind, to |-> to, rcpt |-> rcpt, text |-> text, user |-> user,
   msg |-> msg]

Init ==
  /\ now = 0
  /\ users = [u \in Users |-> [isOnline |-> FALSE, lastSeen |-> 0]]
  /\ messages = <<>>
  /\ connectedUsers = <<>>
  /\ sockets = [c \in Sockets |->
                  [state |-> "new", userId |-> None, username |-> None,
                   rooms |-> {}]]
  /\ tasks = {}
  /\ emitted = <<>>
  /\ nextId = 1
  /\ shutdown = [pc |-> "running", idx |-> 0, cur |-> None, stamp |-> 0]
  /\ used = [req |-> 0, fail |-> 0]

\* the process has not exited, neither by process.exit nor by an uncaught
\* exception
Alive == shutdown.pc \notin {"exited", "crashed"}

\* a handler may suspend while fewer than MaxInflight are suspended; it is
\* numbered with the lowest free number
CanSuspend == Cardinality(tasks) < MaxInflight
FreeTid == CHOOSE i \in 1..MaxInflight :
             /\ \A t \in tasks : t.tid /= i
             /\ \A j \in 1..(i - 1) : \E t \in tasks : t.tid = j

\* outcomes of a store call: TRUE (done) or FALSE (the call rejects)
Outcomes == IF used.fail < MaxFail THEN {TRUE, FALSE} ELSE {TRUE}
CountFail(ok) == IF ok THEN used ELSE [used EXCEPT !.fail = @ + 1]

(* --------------------------- the registry Map ------------------------- *)
RegKeys(reg) == {reg[i].userId : i \in 1..Len(reg)}
RegHas(reg, u) == u \in RegKeys(reg)
RegPos(reg, u) == CHOOSE i \in 1..Len(reg) : reg[i].userId = u

\* Map.prototype.set: an existing key keeps its place, a new key is appended
RegSet(reg, u, sid, name) ==
  LET e == [userId |-> u, socketId |-> sid, username |-> name]
  IN  IF RegHas(reg, u) THEN [reg EXCEPT ![RegPos(reg, u)] = e]
      ELSE Append(reg, e)

\* Map.prototype.delete
RegDelete(reg, u) ==
  IF RegHas(reg, u)
  THEN LET p == RegPos(reg, u)
       IN  SubSeq(reg, 1, p - 1) \o SubSeq(reg, p + 1, Len(reg))
  ELSE reg

\* a live Map iterator that has yielded idx entries, after delete(u)
IterAfterDelete(reg, u, idx) ==
  IF RegHas(reg, u) /\ RegPos(reg, u) <= idx THEN idx - 1 ELSE idx

(* ------------------------------ emitting ------------------------------ *)
Open(c) == sockets[c].state = "open"

\* socket.emit(...)
ToSocket(c, kind, text, user, msg) ==
  Event(kind, c, IF Open(c) THEN {c} ELSE {}, text, user, msg)

\* io.to(room).emit(...)
ToRoom(room, kind, text, user, msg) ==
  Event(kind, room, {c \in Sockets : Open(c) /\ room \in sockets[c].rooms},
        text, user, msg)

\* socket.broadcast.emit(...)
Broadcast(c, kind, text, user, msg) ==
  Event(kind, "broadcast", {d \in Sockets : d /= c /\ Open(d)},
        text, user, msg)

(* ------------------------------ the clock ----------------------------- *)
Tick ==
  /\ Alive
  /\ now < MaxClock
  /\ now' = now + 1
  /\ UNCHANGED <<users, messages, connectedUsers, sockets, tasks, emitted,
                 nextId, shutdown, used>>

(* ----------------------------- connection ----------------------------- *)
\* connections are interchangeable: they are named in the order they connect
Earlier(c) == IF c = "c1" THEN {} ELSE {"c1"}

\* io.on('connection')
Connect(c) ==
  /\ Alive
  /\ sockets[c].state = "new"
  /\ \A d \in Earlier(c) : sockets[d].state /= "new"
  /\ sockets' = [sockets EXCEPT ![c].state = "open"]
  /\ UNCHANGED <<now, users, messages, connectedUsers, tasks, emitted,
                 nextId, shutdown, used>>

(* ---------------------------- authenticate ---------------------------- *)
Tokens == {"bad"} \cup Users \cup {UnknownUser}

\* socket.on('authenticate'): jwt.verify, then User.findById is awaited
Authenticate(c, token) ==
  /\ Alive
  /\ Open(c)
  /\ used.req < MaxRequests
  /\ used' = [used EXCEPT !.req = @ + 1]
  /\ IF token = "bad"
     THEN /\ emitted' = Append(emitted,
               ToSocket(c, "authentication-error", "Invalid token", None, NoMsg))
          /\ UNCHANGED tasks
     ELSE /\ CanSuspend
          /\ tasks' = tasks \cup
               {Task(FreeTid, "auth", "findById", c, token, FALSE, 0, NoMsg)}
          /\ UNCHANGED emitted
  /\ UNCHANGED <<now, users, messages, connectedUsers, sockets, nextId,
                 shutdown>>

\* User.findById completes, the socket taking the identity and joining the
\* room before the handler looks whether a user was found
AuthFindDoneJoinsFirst(t, ok) ==
  /\ Alive
  /\ t \in tasks /\ t.kind = "auth" /\ t.pc = "findById"
  /\ used' = CountFail(ok)
  /\ IF ~ok
     THEN /\ emitted' = Append(emitted,
               ToSocket(t.sock, "authentication-error", "Invalid token", None, NoMsg))
          /\ tasks' = tasks \ {t}
          /\ UNCHANGED sockets
     ELSE /\ sockets' = [sockets EXCEPT
               ![t.sock].userId = t.uid,
               ![t.sock].username = Username(t.uid),
               ![t.sock].rooms = @ \cup {Room(t.uid)}]
          /\ IF t.uid \notin Users
             THEN /\ emitted' = Append(emitted,
                       ToSocket(t.sock, "authentication-error", "User not found",
                                None, NoMsg))
                  /\ tasks' = tasks \ {t}
             ELSE /\ tasks' = (tasks \ {t}) \cup
                       {[t EXCEPT !.pc = "save", !.snap = users[t.uid].isOnline,
                                  !.stamp = now]}
                  /\ UNCHANGED emitted
  /\ UNCHANGED <<now, users, messages, connectedUsers, nextId,
                 shutdown>>

\* User.findById completes: the socket takes the identity, joins the room,
\* and user.save() is awaited
AuthFindDone(t, ok) ==
  /\ Alive
  /\ t \in tasks /\ t.kind = "auth" /\ t.pc = "findById"
  /\ used' = CountFail(ok)
  /\ IF ~ok
     THEN /\ emitted' = Append(emitted,
               ToSocket(t.sock, "authentication-error", "Invalid token", None, NoMsg))
          /\ tasks' = tasks \ {t}
          /\ UNCHANGED sockets
     ELSE IF t.uid \notin Users
     THEN /\ emitted' = Append(emitted,
               ToSocket(t.sock, "authentication-error", "User not found", None, NoMsg))
          /\ tasks' = tasks \ {t}
          /\ UNCHANGED sockets
     ELSE /\ sockets' = [sockets EXCEPT
               ![t.sock].userId = t.uid,
               ![t.sock].username = Username(t.uid),
               ![t.sock].rooms = @ \cup {Room(t.uid)}]
          /\ tasks' = (tasks \ {t}) \cup
               {[t EXCEPT !.pc = "save", !.snap = users[t.uid].isOnline,
                          !.stamp = now]}
          /\ UNCHANGED emitted
  /\ UNCHANGED <<now, users, messages, connectedUsers, nextId,
                 shutdown>>

\* user.save() writes the modified paths only: isOnline when the fetched
\* document did not already hold the assigned value, and lastSeen
SaveUser(u, snap, online, stamp) ==
  [users EXCEPT ![u] = [isOnline |-> IF snap = online THEN @.isOnline ELSE online,
                        lastSeen |-> stamp]]

\* user.save() completes: registry entry, `authenticated`, `user-online`
AuthSaveDone(t, ok) ==
  /\ Alive
  /\ t \in tasks /\ t.kind = "auth" /\ t.pc = "save"
  /\ used' = CountFail(ok)
  /\ tasks' = tasks \ {t}
  /\ IF ~ok
     THEN /\ emitted' = Append(emitted,
               ToSocket(t.sock, "authentication-error", "Invalid token", None, NoMsg))
          /\ UNCHANGED <<users, connectedUsers>>
     ELSE /\ users' = SaveUser(t.uid, t.snap, TRUE, t.stamp)
          /\ connectedUsers' = RegSet(connectedUsers, sockets[t.sock].userId,
                                      t.sock, Username(t.uid))
          /\ emitted' = emitted \o
               << ToSocket(t.sock, "authenticated", "", t.uid, NoMsg),
                  Broadcast(t.sock, "user-online", "", t.uid, NoMsg) >>
  /\ UNCHANGED <<now, messages, sockets, nextId, shutdown>>

(* ----------------------------- disconnect ----------------------------- *)
\* the connection closes (the socket leaves its rooms) and
\* socket.on('disconnect') runs up to User.findById
Disconnect(c) ==
  /\ Alive
  /\ Open(c)
  /\ used.req < MaxRequests
  /\ used' = [used EXCEPT !.req = @ + 1]
  /\ sockets' = [sockets EXCEPT ![c].state = "closed", ![c].rooms = {}]
  /\ IF sockets[c].userId /= None
     THEN /\ CanSuspend
          /\ tasks' = tasks \cup
               {Task(FreeTid, "disconnect", "findById", c, sockets[c].userId,
                     FALSE, 0, NoMsg)}
     ELSE UNCHANGED tasks
  /\ UNCHANGED <<now, users, messages, connectedUsers, emitted, nextId,
                 shutdown>>

\* connectedUsers.delete(socket.userId) and the user-offline broadcast
Evict(c) ==
  /\ connectedUsers' = RegDelete(connectedUsers, sockets[c].userId)
  /\ shutdown' = [shutdown EXCEPT
        !.idx = IterAfterDelete(connectedUsers, sockets[c].userId, @)]
  /\ emitted' = Append(emitted,
        Broadcast(c, "user-offline", "", sockets[c].userId, NoMsg))

\* User.findById completes in the disconnect handler
DisconnectFindDone(t, ok) ==
  /\ Alive
  /\ t \in tasks /\ t.kind = "disconnect" /\ t.pc = "findById"
  /\ used' = CountFail(ok)
  /\ IF ~ok
     THEN /\ tasks' = tasks \ {t}
          /\ UNCHANGED <<connectedUsers, shutdown, emitted>>
     ELSE /\ tasks' = (tasks \ {t}) \cup
               {[t EXCEPT !.pc = "save", !.snap = users[t.uid].isOnline,
                          !.stamp = now]}
          /\ UNCHANGED <<connectedUsers, shutdown, emitted>>
  /\ UNCHANGED <<now, users, messages, sockets, nextId>>

\* user.save() completes in the disconnect handler
DisconnectSaveDone(t, ok) ==
  /\ Alive
  /\ t \in tasks /\ t.kind = "disconnect" /\ t.pc = "save"
  /\ used' = CountFail(ok)
  /\ tasks' = tasks \ {t}
  /\ IF ~ok
     THEN UNCHANGED <<users, connectedUsers, shutdown, emitted>>
     ELSE /\ users' = SaveUser(t.uid, t.snap, FALSE, t.stamp)
          /\ Evict(t.sock)
  /\ UNCHANGED <<now, messages, sockets, nextId>>

(* ---------------------------- send-message ---------------------------- *)
\* what a client may put in a send-message / POST /api/messages payload;
\* None, Undefined and NoStamp stand for a field that is not there
NoStamp == 0 - 1
Payload(r, c, ty, at) ==
  [given |-> TRUE, receiverId |-> r, content |-> c, messageType |-> ty,
   createdAt |-> at, sender |-> None]

\* a payload that names a sender and a createdAt of the client's choosing
Forged == [Payload("u1", Hello, "text", 0) EXCEPT !.sender = "u2"]
Payloads ==
  { Payload("u2", Padded(Hello), None, NoStamp),
    Forged,
    Payload(None, Hello, None, NoStamp),
    Payload("u2", Undefined, None, NoStamp),
    Payload("u2", <<>>, None, NoStamp),
    Payload("u2", Blank, "text", NoStamp),
    Payload("u2", Padded(AtCap), None, NoStamp),
    Payload("u2", Padded(OverCap), None, NoStamp),
    Payload("u2", Hello, "image", NoStamp) }

\* a send-message event without payload: data is undefined
NoPayload ==
  [given |-> FALSE, receiverId |-> None, content |-> Undefined,
   messageType |-> None, createdAt |-> NoStamp, sender |-> None]
SendPayloads == Payloads \cup {NoPayload}

\* a handler that takes every message for a text message
TypeOfIgnored(data) == "text"

\* `messageType = 'text'` default of the destructuring
TypeOf(data) == IF data.messageType = None THEN "text" ELSE data.messageType

\* the check without its third test, `!content.trim()`
InvalidDataUntrimmed(data) ==
  \/ data.receiverId = None
  \/ ~Truthy(data.content)

\* !receiverId || !content || !content.trim()
InvalidData(data) ==
  \/ data.receiverId = None
  \/ ~Truthy(data.content)
  \/ ~Truthy(Trim(data.content))

\* createdAt copied from the payload when the payload has one
CreatedAtOfPayload(data, clock) ==
  IF data.createdAt /= NoStamp THEN data.createdAt ELSE clock

\* messageSchema timestamps: createdAt is the clock when save() is called;
\* messageData carries no field of the payload but receiverId and content
CreatedAt(data, clock) == clock

\* a message numbered by the count of stored messages instead of a fresh id
NewMessageNumberedByCount(id, sender, data, clock, via) ==
  [id |-> Len(messages) + 1, sender |-> sender, receiver |-> data.receiverId,
   content |-> Trim(data.content), messageType |-> "text",
   delivered |-> FALSE, read |-> FALSE, createdAt |-> CreatedAt(data, clock),
   via |-> via]

\* a message whose sender is copied from the payload when the payload names one
NewMessageSenderOfPayload(id, sender, data, clock, via) ==
  [id |-> id,
   sender |-> IF data.sender /= None THEN data.sender ELSE sender,
   receiver |-> data.receiverId,
   content |-> Trim(data.content), messageType |-> "text",
   delivered |-> FALSE, read |-> FALSE, createdAt |-> CreatedAt(data, clock),
   via |-> via]

\* new Message(messageData): the ObjectId is drawn here, content is trimmed
NewMessage(id, sender, data, clock, via) ==
  [id |-> id, sender |-> sender, receiver |-> data.receiverId,
   content |-> Trim(data.content), messageType |-> "text",
   delivered |-> FALSE, read |-> FALSE, createdAt |-> CreatedAt(data, clock),
   via |-> via]

\* the schema validation run by save(): content maxLength
ValidDoc(m) == StrLen(m.content) <= MaxContentLen

\* socket.on('send-message') up to `await message.save()`; destructuring a
\* payload that is not there throws inside the try block
SendMessage(c, data) ==
  /\ Alive
  /\ Open(c)
  /\ used.req < MaxRequests
  /\ used' = [used EXCEPT !.req = @ + 1]
  /\ IF sockets[c].userId = None
     THEN /\ emitted' = Append(emitted,
               ToSocket(c, "error", "Not authenticated", None, NoMsg))
          /\ UNCHANGED <<tasks, nextId>>
     ELSE IF ~data.given
     THEN /\ emitted' = Append(emitted,
               ToSocket(c, "error", "Failed to send message", None, NoMsg))
          /\ UNCHANGED <<tasks, nextId>>
     ELSE IF InvalidData(data)
     THEN /\ emitted' = Append(emitted,
               ToSocket(c, "error", "Invalid message data", None, NoMsg))
          /\ UNCHANGED <<tasks, nextId>>
     ELSE IF TypeOf(data) /= "text"
     THEN /\ emitted' = Append(emitted,
               ToSocket(c, "error", "Only text messages allowed", None, NoMsg))
          /\ UNCHANGED <<tasks, nextId>>
     ELSE /\ CanSuspend
          /\ tasks' = tasks \cup
               {Task(FreeTid, "send", "save", c, sockets[c].userId, FALSE, 0,
                     NewMessage(nextId, sockets[c].userId, data, now, c))}
          /\ nextId' = nextId + 1
          /\ UNCHANGED emitted
  /\ UNCHANGED <<now, users, messages, connectedUsers, sockets, shutdown>>

\* a response of the REST API
Http(status, text, user, msg) == Event("http", status, {}, text, user, msg)

\* the catch block: socket.emit('error', ...) on the socket path,
\* res.status(500) on the REST path
SendFailed(t) ==
  IF t.kind = "send"
  THEN ToSocket(t.sock, "error", "Failed to send message", None, NoMsg)
  ELSE Http("500", "Server error", None, NoMsg)

\* message.save() whose rejection is swallowed: the handler goes on
SendSaveDoneUnchecked(t, ok) ==
  /\ Alive
  /\ t \in tasks /\ t.kind \in {"send", "rest"} /\ t.pc = "save"
  /\ used' = CountFail(ok)
  /\ messages' = IF ~ValidDoc(t.msg) \/ ~ok THEN messages
                 ELSE Append(messages, t.msg)
  /\ tasks' = (tasks \ {t}) \cup {[t EXCEPT !.pc = "populateSender"]}
  /\ UNCHANGED <<now, users, connectedUsers, sockets, nextId, shutdown,
                 emitted>>

\* message.save() completes: validation, then the insert
SendSaveDone(t, ok) ==
  /\ Alive
  /\ t \in tasks /\ t.kind \in {"send", "rest"} /\ t.pc = "save"
  /\ used' = CountFail(ok)
  /\ IF ~ValidDoc(t.msg) \/ ~ok
     THEN /\ emitted' = Append(emitted, SendFailed(t))
          /\ tasks' = tasks \ {t}
          /\ UNCHANGED messages
     ELSE /\ messages' = Append(messages, t.msg)
          /\ tasks' = (tasks \ {t}) \cup {[t EXCEPT !.pc = "populateSender"]}
          /\ UNCHANGED emitted
  /\ UNCHANGED <<now, users, connectedUsers, sockets, nextId, shutdown>>

\* message.populate('sender', 'username') completes, a rejection being
\* swallowed without a word to the sender
SendPopulateSenderDoneSilent(t, ok) ==
  /\ Alive
  /\ t \in tasks /\ t.kind \in {"send", "rest"} /\ t.pc = "populateSender"
  /\ used' = CountFail(ok)
  /\ IF ~ok
     THEN tasks' = tasks \ {t}
     ELSE tasks' = (tasks \ {t}) \cup {[t EXCEPT !.pc = "populateReceiver"]}
  /\ UNCHANGED <<now, users, messages, connectedUsers, sockets, nextId,
                 shutdown, emitted>>

\* message.populate('sender', 'username') completes
SendPopulateSenderDone(t, ok) ==
  /\ Alive
  /\ t \in tasks /\ t.kind \in {"send", "rest"} /\ t.pc = "populateSender"
  /\ used' = CountFail(ok)
  /\ IF ~ok
     THEN /\ emitted' = Append(emitted, SendFailed(t))
          /\ tasks' = tasks \ {t}
     ELSE /\ tasks' = (tasks \ {t}) \cup {[t EXCEPT !.pc = "populateReceiver"]}
          /\ UNCHANGED emitted
  /\ UNCHANGED <<now, users, messages, connectedUsers, sockets, nextId,
                 shutdown>>

\* the fanout of the socket path: io.to(`user_${receiverId}`) and socket.emit
SocketFanout(t) ==
  << ToRoom(Room(t.msg.receiver), "receive-message", "", None, t.msg),
     ToSocket(t.sock, "message-sent", "", None, t.msg) >>

\* the fanout of the REST path: both rooms, then res.status(201)
RestFanout(t) ==
  << ToRoom(Room(t.msg.receiver), "receive-message", "", None, t.msg),
     ToRoom(Room(t.msg.sender), "message-sent", "", None, t.msg),
     Http("201", "", None, t.msg) >>

Fanout(t) == IF t.kind = "send" THEN SocketFanout(t) ELSE RestFanout(t)

\* message.populate('receiver', 'username') completes, then the fanout
SendPopulateReceiverDone(t, ok) ==
  /\ Alive
  /\ t \in tasks /\ t.kind \in {"send", "rest"} /\ t.pc = "populateReceiver"
  /\ used' = CountFail(ok)
  /\ tasks' = tasks \ {t}
  /\ IF ~ok
     THEN emitted' = Append(emitted, SendFailed(t))
     ELSE emitted' = emitted \o Fanout(t)
  /\ UNCHANGED <<now, users, messages, connectedUsers, sockets, nextId,
                 shutdown>>

(* -------------------------- POST /api/messages ------------------------- *)
\* the bearer tokens and bodies tried on the REST path
RestTokens == {"u1", "bad"}
RestPayloads ==
  { Payload("u2", Padded(Hello), None, NoStamp),
    Payload("u1", Hello, "text", 0),
    Payload(None, Hello, None, NoStamp),
    Payload("u2", Blank, "text", NoStamp),
    Payload("u2", Padded(OverCap), None, NoStamp),
    Payload("u2", Hello, "image", NoStamp) }

\* authenticateToken, then the handler up to `await message.save()`
RestSend(token, data) ==
  /\ Alive
  /\ used.req < MaxRequests
  /\ used' = [used EXCEPT !.req = @ + 1]
  /\ IF token = "bad"
     THEN /\ emitted' = Append(emitted, Http("403", "Invalid token", None, NoMsg))
          /\ UNCHANGED <<tasks, nextId>>
     ELSE IF InvalidData(data)
     THEN /\ emitted' = Append(emitted,
               Http("400", "Receiver and message content required", None, NoMsg))
          /\ UNCHANGED <<tasks, nextId>>
     ELSE /\ CanSuspend
          /\ tasks' = tasks \cup
               {Task(FreeTid, "rest", "save", "http", token, FALSE, 0,
                     NewMessage(nextId, token, data, now, "http"))}
          /\ nextId' = nextId + 1
          /\ UNCHANGED emitted
  /\ UNCHANGED <<now, users, messages, connectedUsers, sockets, shutdown>>

(* ------------------------- POST /api/auth/login ------------------------ *)
\* the handler up to `await User.findOne(...)`; name is the username given
RestLogin(name) ==
  /\ Alive
  /\ used.req < MaxRequests
  /\ used' = [used EXCEPT !.req = @ + 1]
  /\ IF name = None
     THEN /\ emitted' = Append(emitted,
               Http("400", "Username and password required", None, NoMsg))
          /\ UNCHANGED tasks
     ELSE /\ CanSuspend
          /\ tasks' = tasks \cup
               {Task(FreeTid, "login", "findOne", "http", name, FALSE, 0, NoMsg)}
          /\ UNCHANGED emitted
  /\ UNCHANGED <<now, users, messages, connectedUsers, sockets, nextId,
                 shutdown>>

\* User.findOne completes; bcrypt.compare is awaited
LoginFindDone(t, ok) ==
  /\ Alive
  /\ t \in tasks /\ t.kind = "login" /\ t.pc = "findOne"
  /\ used' = CountFail(ok)
  /\ IF ~ok
     THEN /\ emitted' = Append(emitted, Http("500", "Server error", None, NoMsg))
          /\ tasks' = tasks \ {t}
     ELSE IF t.uid \notin Users
     THEN /\ emitted' = Append(emitted,
               Http("400", "Invalid credentials", None, NoMsg))
          /\ tasks' = tasks \ {t}
     ELSE /\ tasks' = (tasks \ {t}) \cup
               {[t EXCEPT !.pc = "compare", !.snap = users[t.uid].isOnline]}
          /\ UNCHANGED emitted
  /\ UNCHANGED <<now, users, messages, connectedUsers, sockets, nextId,
                 shutdown>>

\* bcrypt.compare completes; on a match isOnline and lastSeen are assigned
\* and user.save() is awaited
LoginCompareDone(t, isValid) ==
  /\ Alive
  /\ t \in tasks /\ t.kind = "login" /\ t.pc = "compare"
  /\ IF ~isValid
     THEN /\ emitted' = Append(emitted,
               Http("400", "Invalid credentials", None, NoMsg))
          /\ tasks' = tasks \ {t}
     ELSE /\ tasks' = (tasks \ {t}) \cup
               {[t EXCEPT !.pc = "save", !.stamp = now]}
          /\ UNCHANGED emitted
  /\ UNCHANGED <<now, users, messages, connectedUsers, sockets, nextId,
                 shutdown, used>>

\* user.save() completes in the login handler
LoginSaveDone(t, ok) ==
  /\ Alive
  /\ t \in tasks /\ t.kind = "login" /\ t.pc = "save"
  /\ used' = CountFail(ok)
  /\ tasks' = tasks \ {t}
  /\ IF ~ok
     THEN /\ emitted' = Append(emitted, Http("500", "Server error", None, NoMsg))
          /\ UNCHANGED users
     ELSE /\ users' = SaveUser(t.uid, t.snap, TRUE, t.stamp)
          /\ emitted' = Append(emitted,
               Http("200", "Login successful", t.uid, NoMsg))
  /\ UNCHANGED <<now, messages, connectedUsers, sockets, nextId, shutdown>>

(* ------------------------- typing / stop-typing ------------------------ *)
\* what a client may send with a typing or stop-typing event: an object
\* with a receiverId, an object without one, or no payload at all
TypingData(given, r) == [given |-> given, receiverId |-> r]
TypingPayloads ==
  { TypingData(TRUE, "u2"), TypingData(TRUE, "u1"), TypingData(TRUE, None),
    TypingData(FALSE, None) }

\* the isTyping field of the user-typing event
IsTypingText(isTyping) == IF isTyping THEN "true" ELSE "false"

\* the handler with one body for both events, always announcing isTyping: true
TypingAlwaysTrue(c, isTyping, data) ==
  /\ Alive
  /\ Open(c)
  /\ used.req < MaxRequests
  /\ used' = [used EXCEPT !.req = @ + 1]
  /\ IF sockets[c].userId = None
     THEN UNCHANGED <<emitted, shutdown>>
     ELSE IF ~data.given
     THEN /\ shutdown' = [shutdown EXCEPT !.pc = "crashed"]
          /\ UNCHANGED emitted
     ELSE IF data.receiverId = None
     THEN UNCHANGED <<emitted, shutdown>>
     ELSE /\ emitted' = Append(emitted,
               ToRoom(Room(data.receiverId), "user-typing", "true",
                      sockets[c].userId, NoMsg))
          /\ UNCHANGED shutdown
  /\ UNCHANGED <<now, users, messages, connectedUsers, sockets, tasks,
                 nextId>>

\* socket.on('typing') (isTyping = TRUE) and socket.on('stop-typing')
\* (isTyping = FALSE): `socket.userId && data.receiverId` is evaluated left
\* to right, and reading receiverId of a payload that is not there throws
\* outside any try block, which ends the process
Typing(c, isTyping, data) ==
  /\ Alive
  /\ Open(c)
  /\ used.req < MaxRequests
  /\ used' = [used EXCEPT !.req = @ + 1]
  /\ IF sockets[c].userId = None
     THEN UNCHANGED <<emitted, shutdown>>
     ELSE IF ~data.given
     THEN /\ shutdown' = [shutdown EXCEPT !.pc = "crashed"]
          /\ UNCHANGED emitted
     ELSE IF data.receiverId = None
     THEN UNCHANGED <<emitted, shutdown>>
     ELSE /\ emitted' = Append(emitted,
               ToRoom(Room(data.receiverId), "user-typing",
                      IsTypingText(isTyping), sockets[c].userId, NoMsg))
          /\ UNCHANGED shutdown
  /\ UNCHANGED <<now, users, messages, connectedUsers, sockets, tasks,
                 nextId>>

(* ------------------------------- SIGINT ------------------------------- *)
\* the for-of loop asks the Map iterator for its next entry: either
\* User.findByIdAndUpdate is awaited for it, or the loop ends and
\* mongoose.connection.close() is awaited
SweepNext(idx) ==
  IF idx < Len(connectedUsers)
  THEN [pc |-> "sweep", idx |-> idx + 1,
        cur |-> connectedUsers[idx + 1].userId, stamp |-> now]
  ELSE [pc |-> "closing", idx |-> idx, cur |-> None, stamp |-> 0]

\* process.on('SIGINT')
Sigint ==
  /\ shutdown.pc = "running"
  /\ used.req < MaxRequests
  /\ used' = [used EXCEPT !.req = @ + 1]
  /\ shutdown' = SweepNext(0)
  /\ UNCHANGED <<now, users, messages, connectedUsers, sockets, tasks,
                 emitted, nextId>>

\* User.findByIdAndUpdate completes (a rejection is logged), next entry
SweepUpdateDone(ok) ==
  /\ shutdown.pc = "sweep"
  /\ used' = CountFail(ok)
  /\ users' = IF ok
              THEN [users EXCEPT ![shutdown.cur] =
                      [isOnline |-> FALSE, lastSeen |-> shutdown.stamp]]
              ELSE users
  /\ shutdown' = SweepNext(shutdown.idx)
  /\ UNCHANGED <<now, messages, connectedUsers, sockets, tasks, emitted,
                 nextId>>

\* what the runtime does with the rejection of an async handler nobody
\* awaits: it ends the process (the default from Node 15 on), or it warns
\* and goes on (earlier versions, --unhandled-rejections=warn)
UnhandledRejection == {"crashed", "closeFailed"}

\* mongoose.connection.close() completes: process.exit(0), or the handler
\* rejects before reaching it
CloseDone(ok) ==
  /\ shutdown.pc = "closing"
  /\ used' = CountFail(ok)
  /\ \E pc \in (IF ok THEN {"exited"} ELSE UnhandledRejection) :
        shutdown' = [shutdown EXCEPT !.pc = pc]
  /\ UNCHANGED <<now, users, messages, connectedUsers, sockets, tasks,
                 emitted, nextId>>

(* --------------------------- specifications --------------------------- *)
SocketSteps ==
  \/ Tick
  \/ \E c \in Sockets : Connect(c)
  \/ \E c \in Sockets, token \in Tokens : Authenticate(c, token)
  \/ \E t \in tasks, ok \in Outcomes : AuthFindDone(t, ok)
  \/ \E t \in tasks, ok \in Outcomes : AuthSaveDone(t, ok)
  \/ \E c \in Sockets : Disconnect(c)
  \/ \E t \in tasks, ok \in Outcomes : DisconnectFindDone(t, ok)
  \/ \E t \in tasks, ok \in Outcomes : DisconnectSaveDone(t, ok)

SendSteps ==
  \/ \E c \in Sockets, data \in SendPayloads : SendMessage(c, data)
  \/ \E t \in tasks, ok \in Outcomes : SendSaveDone(t, ok)
  \/ \E t \in tasks, ok \in Outcomes : SendPopulateSenderDone(t, ok)
  \/ \E t \in tasks, ok \in Outcomes : SendPopulateReceiverDone(t, ok)

RestSendSteps ==
  \E token \in RestTokens, data \in RestPayloads : RestSend(token, data)

LoginSteps ==
  \/ \E name \in Users \cup {UnknownUser, None} : RestLogin(name)
  \/ \E t \in tasks, ok \in Outcomes : LoginFindDone(t, ok)
  \/ \E t \in tasks, isValid \in BOOLEAN : LoginCompareDone(t, isValid)
  \/ \E t \in tasks, ok \in Outcomes : LoginSaveDone(t, ok)

TypingSteps ==
  \E c \in Sockets, isTyping \in BOOLEAN, data \in TypingPayloads :
     Typing(c, isTyping, data)

ShutdownSteps ==
  \/ Sigint
  \/ \E ok \in Outcomes : SweepUpdateDone(ok)
  \/ \E ok \in Outcomes : CloseDone(ok)

\* the whole server
Next ==
  \/ SocketSteps \/ SendSteps \/ RestSendSteps \/ LoginSteps
  \/ TypingSteps \/ ShutdownSteps
Spec == Init /\ [][Next]_vars

\* the persistent-channel path alone
NextSocket == SocketSteps \/ SendSteps
SpecSocket == Init /\ [][NextSocket]_vars

\* the persistent-channel path, every awaited call of a send-message
\* handler completing in the end (resolving or rejecting)
SpecSocketFair ==
  /\ SpecSocket
  /\ WF_vars(\E t \in tasks, ok \in Outcomes : SendSaveDone(t, ok))
  /\ WF_vars(\E t \in tasks, ok \in Outcomes : SendPopulateSenderDone(t, ok))
  /\ WF_vars(\E t \in tasks, ok \in Outcomes : SendPopulateReceiverDone(t, ok))

\* both delivery paths
NextDelivery == SocketSteps \/ SendSteps \/ RestSendSteps
SpecDelivery == Init /\ [][NextDelivery]_vars

\* the connection lifecycle and the typing relay
NextTyping == SocketSteps \/ TypingSteps
SpecTyping == Init /\ [][NextTyping]_vars

\* the connection lifecycle, REST login and shutdown
NextPresence == SocketSteps \/ LoginSteps \/ ShutdownSteps
SpecPresence == Init /\ [][NextPresence]_vars

(* ------------------------ observations on the log --------------------- *)
\* connection c has been sent an event of this kind
Received(c, kind) ==
  \E i \in 1..Len(emitted) : emitted[i].kind = kind /\ c \in emitted[i].rcpt

\* the events the step under inspection appends to the log
NewEvents == {i \in 1..Len(emitted') : i > Len(emitted)}

\* the handler invocations that suspend on message.save() in this step,
\* that is, the sends this step accepts
AcceptedSends == {t \in tasks' \ tasks : t.kind \in {"send", "rest"} /\ t.pc = "save"}

MessageKinds == {"receive-message", "message-sent"}
Persisted(id) == \E j \in 1..Len(messages) : messages[j].id = id

(* -------------------------------- C1 ---------------------------------- *)
\* C1: in every reachable state, a user whose stored isOnline is true has an
\* entry in the connection registry.
C1_OnlineImpliesRegistered ==
  \A u \in Users : users[u].isOnline => RegHas(connectedUsers, u)

(* -------------------------------- C2 ---------------------------------- *)
\* C2: a send-message from a connection that has not received an
\* `authenticated` reply is never accepted: it persists nothing and fans
\* out nothing (it is answered with an error).
C2_UnauthenticatedSendRejected ==
  [][\A t \in AcceptedSends :
        t.kind = "send" => Received(t.sock, "authenticated")]_vars

(* -------------------------------- C3 ---------------------------------- *)
\* C3: on the persistent-channel path a send-message whose sender identity
\* has no entry in the connection registry when the send is processed is
\* rejected: nothing is persisted, nothing is fanned out.
C3_UnregisteredSendRejected ==
  [][\A t \in AcceptedSends :
        t.kind = "send" => RegHas(connectedUsers, t.uid)]_vars

(* -------------------------------- C4 ---------------------------------- *)
\* C4: the events carrying a message from S to R are delivered only to
\* connections that are members of S's room or R's room, and never to a
\* connection that belongs to a third user, that is, whose identity
\* (socket.userId) is neither S nor R.  The connection that issued the send
\* is left aside: it is the sender's.
C4_OnlySenderAndReceiverReceive ==
  [][\A i \in NewEvents :
        emitted'[i].kind \in MessageKinds =>
          \A c \in emitted'[i].rcpt \ {emitted'[i].msg.via} :
             /\ \/ Room(emitted'[i].msg.sender) \in sockets[c].rooms
                \/ Room(emitted'[i].msg.receiver) \in sockets[c].rooms
             /\ sockets[c].userId \in
                  {emitted'[i].msg.sender, emitted'[i].msg.receiver}]_vars

(* -------------------------------- C5 ---------------------------------- *)
\* a payload whose receiverId is absent or whose content is absent, empty
\* or made of whitespace only
BlankOrNoReceiver(data) ==
  \/ data.receiverId = None
  \/ data.content = Undefined
  \/ \A i \in 1..Len(data.content) : data.content[i].ch = Sp

\* the step rejects the request with this reply and nothing else happens
RejectedWith(reply) ==
  /\ emitted' = Append(emitted, reply)
  /\ UNCHANGED <<messages, tasks, nextId, users, connectedUsers, sockets>>

SocketValidationError(c) ==
  ToSocket(c, "error", "Invalid message data", None, NoMsg)
RestValidationError ==
  Http("400", "Receiver and message content required", None, NoMsg)

TooLong(data) ==
  /\ ~BlankOrNoReceiver(data)
  /\ TypeOf(data) = "text"
  /\ StrLen(Trim(data.content)) > MaxContentLen

\* C6: a send whose trimmed content exceeds the cap is rejected with the
\* validation error of an empty send, and nothing is persisted or fanned out.
C6_TooLongRejectedAsInvalid ==
  [][\A c \in Sockets, data \in Payloads :
        TooLong(data) /\ sockets[c].userId /= None /\ SendMessage(c, data)
          => RejectedWith(SocketValidationError(c))]_vars

(* -------------------------------- C7 ---------------------------------- *)
\* the sends whose message.save() ends in this step without the message
\* having been inserted
SaveFailures ==
  {t \in tasks \ tasks' :
     /\ t.kind \in {"send", "rest"} /\ t.pc = "save"
     /\ \A j \in 1..Len(messages') : messages'[j].id /= t.msg.id}

\* the reply of the path the send came by, naming a failure
FailureReply(t) ==
  IF t.kind = "send"
  THEN [kind |-> "error", to |-> t.sock]
  ELSE [kind |-> "http", to |-> "500"]

\* C7: every receive-message or message-sent event carries a message that
\* was persisted beforehand, and a send whose persisting fails is aborted:
\* that step emits one event only, the error reported to the sender.
C7_NoFanoutWithoutPersistence ==
  [][/\ \A i \in NewEvents :
          emitted'[i].kind \in MessageKinds => Persisted(emitted'[i].msg.id)
     /\ \A t \in SaveFailures :
          /\ Len(emitted') = Len(emitted) + 1
          /\ emitted'[Len(emitted')].kind = FailureReply(t).kind
          /\ emitted'[Len(emitted')].to = FailureReply(t).to
          /\ \A u \in tasks' : u.msg.id /= t.msg.id]_vars

\* a store failure has aborted a send: nothing persisted, nothing fanned
\* out, the error reported to the open connection
C7_Witness ==
  /\ used.fail = 1 /\ nextId = 2 /\ tasks = {} /\ messages = <<>>
  /\ emitted /= <<>>
  /\ emitted[Len(emitted)].text = "Failed to send message"
  /\ emitted[Len(emitted)].rcpt /= {}
  /\ \A i \in 1..Len(emitted) :
        emitted[i].kind \notin (MessageKinds \cup {"authentication-error"})

(* -------------------------------- C8 ---------------------------------- *)
\* C8: the messages of one sender are persisted, and fanned out as
\* receive-message, in the order in which their sends were accepted (the
\* order of the ids drawn by new Message()).
C8_PerSenderOrder ==
  /\ \A i, j \in 1..Len(messages) :
        i < j /\ messages[i].sender = messages[j].sender
          => messages[i].id < messages[j].id
  /\ \A i, j \in 1..Len(emitted) :
        /\ i < j
        /\ emitted[i].kind = "receive-message"
        /\ emitted[j].kind = "receive-message"
        /\ emitted[i].msg.sender = emitted[j].msg.sender
        => emitted[i].msg.id < emitted[j].msg.id

(* -------------------------------- C9 ---------------------------------- *)
\* the message documents built so far: persisted, or waiting on a store call
Docs ==
  {messages[j] : j \in 1..Len(messages)} \cup
  {t.msg : t \in {u \in tasks : u.kind \in {"send", "rest"}}}

\* C9: for the sends of one sender, createdAt is non-decreasing in the order
\* the sends were processed, and it is the server's clock at that time,
\* whatever the payload carries.
C9_CreatedAtMonotone ==
  /\ [](\A a, b \in Docs :
          a.sender = b.sender /\ a.id < b.id => a.createdAt <= b.createdAt)
  /\ [][\A t \in AcceptedSends : t.msg.createdAt = now]_vars

\* two persisted messages of one sender stamped at different clock values,
\* the later one sent with a createdAt of the client's in its payload
C9_Witness ==
  \E i, j \in 1..Len(messages) :
     /\ messages[i].sender = messages[j].sender
     /\ messages[i].via /= "http" /\ messages[j].via /= "http"
     /\ messages[i].id < messages[j].id
     /\ messages[i].createdAt = 0 /\ messages[j].createdAt = 1
     /\ messages[j].receiver = "u1"

(* -------------------------------- C10 --------------------------------- *)
\* C10: no two persisted messages share an id, also when sender, receiver
\* and content are the same; every message fanned out is persisted under
\* its own id, and no message is fanned out as receive-message twice.
C10_DistinctMessages ==
  /\ \A i, j \in 1..Len(messages) :
        i /= j => messages[i].id /= messages[j].id
  /\ \A i \in 1..Len(emitted) :
        emitted[i].kind = "receive-message"
          => /\ Persisted(emitted[i].msg.id)
             /\ \A j \in 1..Len(emitted) :
                   /\ emitted[j].kind = "receive-message"
                   /\ emitted[j].msg.id = emitted[i].msg.id
                   => j = i

\* the same {receiverId, content} sent twice by one connection: two
\* messages persisted, both fanned out
C10_Witness ==
  /\ Len(messages) = 2
  /\ messages[1].id /= messages[2].id
  /\ messages[1].via = messages[2].via /\ messages[1].via /= "http"
  /\ messages[1].sender = messages[2].sender
  /\ messages[1].receiver = messages[2].receiver
  /\ messages[1].content = messages[2].content
  /\ \A k \in 1..2 : \E i \in 1..Len(emitted) :
        emitted[i].kind = "receive-message" /\ emitted[i].msg.id = messages[k].id

(* -------------------------------- C11 --------------------------------- *)
\* the receive-message events that reached a connection of the receiver
\* other than the one that issued the send, the message going from one user
\* to another
DeliveredEvents ==
  {i \in 1..Len(emitted) :
     /\ emitted[i].kind = "receive-message"
     /\ emitted[i].msg.sender /= emitted[i].msg.receiver
     /\ \E c \in emitted[i].rcpt \ {emitted[i].msg.via} :
           sockets[c].userId = emitted[i].msg.receiver}

\* C11: when A sends to B while B has a live connection, the message is
\* marked delivered: the receive-message B gets carries delivered = true,
\* the stored message has delivered = true once the send handler is done,
\* and A's message-sent carries the id of B's receive-message.
C11_DeliveredMarked ==
  \A i \in DeliveredEvents :
     /\ emitted[i].msg.delivered
     /\ \A j \in 1..Len(messages) :
           messages[j].id = emitted[i].msg.id => messages[j].delivered
     /\ \A c \in Sockets :
           c = emitted[i].msg.via /\ Open(c)
             => \E k \in 1..Len(emitted) :
                   /\ emitted[k].kind = "message-sent"
                   /\ emitted[k].msg.id = emitted[i].msg.id
                   /\ c \in emitted[k].rcpt

(* -------------------------------- C12 --------------------------------- *)
\* user u has a live connection: the registry has an entry for u, or an
\* open connection has the identity u
HasLiveConnection(u) ==
  \/ RegHas(connectedUsers, u)
  \/ \E c \in Sockets : Open(c) /\ sockets[c].userId = u

\* C12: when A sends to B while B has no live connection, the message is
\* persisted with delivered = false and its receive-message reaches no
\* connection; nothing pushes it later: a receive-message is only ever
\* emitted by the send handler that persisted the message.
C12_OfflineReceiverGetsNothing ==
  [][\A i \in NewEvents :
        emitted'[i].kind = "receive-message" =>
          /\ \E t \in tasks \ tasks' :
                t.kind \in {"send", "rest"} /\ t.msg.id = emitted'[i].msg.id
          /\ ~HasLiveConnection(emitted'[i].msg.receiver) =>
                /\ emitted'[i].rcpt = {}
                /\ \E j \in 1..Len(messages') :
                      /\ messages'[j].id = emitted'[i].msg.id
                      /\ ~messages'[j].delivered]_vars

(* -------------------------------- C13 --------------------------------- *)
\* the connection handle of u's registry entry
Handle(reg, u) == reg[RegPos(reg, u)].socketId

\* the handshakes that succeed in this step: the `authenticated` replies
Admissions == {i \in NewEvents : emitted'[i].kind = "authenticated"}

\* C13: the registry never holds two entries for one user, and when a
\* handshake for user U succeeds on a connection while the registry holds
\* U's entry for another connection, the entry's handle becomes that of the
\* connection of this handshake.
C13_OneEntryLastSessionWins ==
  /\ [](\A i, j \in 1..Len(connectedUsers) :
          connectedUsers[i].userId = connectedUsers[j].userId => i = j)
  /\ [][\A i \in Admissions :
          /\ RegHas(connectedUsers, emitted'[i].user)
          /\ Handle(connectedUsers, emitted'[i].user) /= emitted'[i].to
          => /\ RegHas(connectedUsers', emitted'[i].user)
             /\ Handle(connectedUsers', emitted'[i].user) = emitted'[i].to]_vars

(* -------------------------------- C14 --------------------------------- *)
\* the disconnect handlers that end in this step
EndingDisconnects ==
  {t \in tasks \ tasks' :
     t.kind = "disconnect" /\ \A s \in tasks' : s.tid /= t.tid}

\* C14: the disconnect of a connection removes a registry entry only if the
\* entry's handle is that connection: when the user's entry belongs to
\* another connection, the entry stays and the user stays online; when the
\* user has no entry, the registry is left as it is.
C14_EvictOnlyOwnEntry ==
  [][\A t \in EndingDisconnects :
        /\ /\ RegHas(connectedUsers, sockets[t.sock].userId)
           /\ Handle(connectedUsers, sockets[t.sock].userId) /= t.sock
           => /\ connectedUsers' = connectedUsers
              /\ users'[t.uid].isOnline = users[t.uid].isOnline
        /\ ~RegHas(connectedUsers, sockets[t.sock].userId)
           => connectedUsers' = connectedUsers]_vars

(* -------------------------------- C15 --------------------------------- *)
\* connection c has a handler suspended on a store call
Busy(c) == \E t \in tasks : t.sock = c

\* C15: once a handshake has succeeded the registry has the user's entry;
\* once the connection has disconnected and its handlers have finished the
\* registry has no entry with its handle, also when the disconnect came
\* while the handshake was suspended on a store call; and the store's
\* isOnline says what the registry says whenever no handler is suspended.
C15_LookupFollowsLifecycle ==
  /\ [][\A i \in Admissions : RegHas(connectedUsers', emitted'[i].user)]_vars
  /\ [](\A c \in Sockets :
          sockets[c].state = "closed" /\ ~Busy(c)
            => \A k \in 1..Len(connectedUsers) : connectedUsers[k].socketId /= c)
  /\ [](tasks = {} =>
          \A u \in Users : users[u].isOnline <=> RegHas(connectedUsers, u))

(* -------------------------------- C16 --------------------------------- *)
\* the handshakes that end in this step on a token whose subject is not a
\* stored user, the lookup itself having worked
UnknownSubjectEnds ==
  {t \in tasks \ tasks' :
     t.kind = "auth" /\ t.uid \notin Users /\ used'.fail = used.fail}

\* the step answers connection c with one authentication-error and nothing
\* else: registry, presence fields, identity and rooms stay as they are
AuthenticationRefused(c) ==
  /\ Len(emitted') = Len(emitted) + 1
  /\ emitted'[Len(emitted')].kind = "authentication-error"
  /\ emitted'[Len(emitted')].to = c
  /\ emitted'[Len(emitted')].rcpt = IF Open(c) THEN {c} ELSE {}
  /\ UNCHANGED <<connectedUsers, users, sockets, messages>>

\* C16: a handshake whose credential fails verification (invalid token, or
\* token of an unknown user) leaves the registry, the presence fields and
\* the room membership unchanged, and the connection is sent
\* authentication-error, never `authenticated`.
C16_FailedHandshakeChangesNothing ==
  [][/\ \A c \in Sockets : Authenticate(c, "bad") => AuthenticationRefused(c)
     /\ \A c \in Sockets : Authenticate(c, UnknownUser) =>
           UNCHANGED <<connectedUsers, users, sockets, messages, emitted>>
     /\ \A t \in UnknownSubjectEnds : AuthenticationRefused(t.sock)
     /\ \A i \in Admissions : emitted'[i].user \in Users]_vars

\* a connection has been refused once for an invalid token and once for an
\* unknown user, and nothing else has happened to the state
C16_Witness ==
  /\ \E i, j \in 1..Len(emitted) :
        /\ emitted[i].kind = "authentication-error"
        /\ emitted[i].text = "Invalid token" /\ emitted[i].rcpt /= {}
        /\ emitted[j].kind = "authentication-error"
        /\ emitted[j].text = "User not found" /\ emitted[j].rcpt /= {}
        /\ emitted[i].to = emitted[j].to
  /\ used.fail = 0 /\ tasks = {} /\ connectedUsers = <<>>
  /\ \A c \in Sockets : sockets[c].rooms = {} /\ sockets[c].userId = None
  /\ \A u \in Users : ~users[u].isOnline

(* -------------------------------- C17 --------------------------------- *)
\* the authentication-error replies sent so far
AuthenticationErrors ==
  {i \in 1..Len(emitted) : emitted[i].kind = "authentication-error"}

\* C17: the authentication-error sent to a connection is the same whatever
\* the cause of the failure (expired or malformed token, unknown user): any
\* two such replies carry the same payload (no store call having failed, so
\* that each reply answers a credential that failed verification).
C17_OpaqueAuthenticationError ==
  used.fail = 0 =>
    \A i, j \in AuthenticationErrors :
       /\ emitted[i].text = emitted[j].text
       /\ emitted[i].user = emitted[j].user
       /\ emitted[i].msg = emitted[j].msg

(* -------------------------------- C18 --------------------------------- *)
\* the REST handlers that take a step here: a request handled up to its
\* first store call, or a suspended one resumed
RestHandlerSteps ==
  {t \in (tasks \ tasks') \cup (tasks' \ tasks) : t.kind \in {"login", "rest"}}

\* C18: isOnline and lastSeen are written by the connection lifecycle only
\* (socket handshake, disconnect, shutdown sweep): no step of a REST
\* handler, a successful REST login included, changes them.
C18_RestLeavesPresenceAlone ==
  [][RestHandlerSteps /= {} => users' = users]_vars

(* -------------------------------- C19 --------------------------------- *)
\* the send-message handlers suspended on a store call
InflightSends == {t \in tasks : t.kind = "send"}

\* C19: when an authenticated connection disconnects, its disconnect
\* handler always ends with the connection evicted from the registry, the
\* user offline in the store and user-offline broadcast, also while a
\* send-message of that connection is suspended on a store call; neither
\* the disconnect nor its handler cancels a suspended send, which goes on to
\* persist and fan out.
C19_DisconnectNotBlockedBySend ==
  [][/\ \A t \in EndingDisconnects :
          /\ Received(t.sock, "authenticated")
          /\ \E s \in InflightSends : s.sock = t.sock
          =>
            /\ \A k \in 1..Len(connectedUsers') :
                  connectedUsers'[k].socketId /= t.sock
            /\ ~users'[t.uid].isOnline
            /\ \E i \in NewEvents :
                  emitted'[i].kind = "user-offline" /\ emitted'[i].user = t.uid
            /\ InflightSends \subseteq tasks'
     /\ \A c \in Sockets : Disconnect(c) => InflightSends \subseteq tasks'
     /\ \A t \in InflightSends :
          /\ t.pc = "save" /\ SendSaveDone(t, TRUE) /\ ValidDoc(t.msg)
             => messages' = Append(messages, t.msg)
          /\ t.pc = "populateReceiver" /\ SendPopulateReceiverDone(t, TRUE)
             => emitted' = emitted \o SocketFanout(t)]_vars

(* -------------------------------- C20 --------------------------------- *)
\* the users whose registry entry the sweep of the SIGINT handler has gone
\* through
Swept ==
  {connectedUsers[k].userId :
     k \in {j \in 1..Len(connectedUsers) : j <= shutdown.idx}}

\* C20: after a termination signal, every user with an entry in the
\* connection registry is offline in the store when the process exits (and
\* the process does exit).  Checked for the entries the sweep went through,
\* no store call having failed.
C20_ExitLeavesRegisteredOffline ==
  shutdown.pc = "exited" /\ used.fail = 0
    => \A u \in Swept : ~users[u].isOnline

(* -------------------------------- C21 --------------------------------- *)
\* the step in which a store call of the SIGINT handler completes
SweepCallEnds == shutdown.pc = "sweep" /\ shutdown' /= shutdown
                   /\ used'.fail > used.fail
CloseCallEnds == shutdown.pc = "closing" /\ shutdown'.pc /= "closing"

\* C21: a store failure while the sweep updates one user does not keep the
\* sweep from going on to the next registry entry (or, after the last one,
\* to closing the store connection), and whatever store call of the
\* shutdown path fails, closing the store connection included, the process
\* exits.
C21_ShutdownSurvivesFailures ==
  [][/\ SweepCallEnds =>
          IF shutdown.idx < Len(connectedUsers)
          THEN /\ shutdown'.pc = "sweep"
               /\ shutdown'.cur = connectedUsers[shutdown.idx + 1].userId
          ELSE shutdown'.pc = "closing"
     /\ CloseCallEnds => ~Alive']_vars

(* -------------------------------- C22 --------------------------------- *)
\* the step changes nothing but the log of events (and the request count)
OnlyEmits ==
  UNCHANGED <<users, messages, connectedUsers, sockets, tasks, nextId,
              shutdown, now>>

\* C22: a typing or stop-typing event with a receiverId, from a connection
\* that has an identity, emits exactly one user-typing event, addressed to
\* the receiver's room and to nothing else, carrying the sender's identity
\* and isTyping true for typing, false for stop-typing; no event is
\* addressed to the sending connection, and registry, user store and
\* message store stay as they are.
C22_TypingRelayedToReceiverRoom ==
  [][\A c \in Sockets, isTyping \in BOOLEAN, data \in TypingPayloads :
        /\ sockets[c].userId /= None
        /\ data.given /\ data.receiverId /= None
        /\ Typing(c, isTyping, data)
        => /\ Len(emitted') = Len(emitted) + 1
           /\ emitted'[Len(emitted')].kind = "user-typing"
           /\ emitted'[Len(emitted')].to = Room(data.receiverId)
           /\ emitted'[Len(emitted')].rcpt =
                {d \in Sockets : Open(d) /\ Room(data.receiverId) \in sockets[d].rooms}
           /\ emitted'[Len(emitted')].user = sockets[c].userId
           /\ emitted'[Len(emitted')].text = (IF isTyping THEN "true" ELSE "false")
           /\ OnlyEmits]_vars

\* a stop-typing of one user has reached a connection of another user
C22_Witness ==
  \E i \in 1..Len(emitted) :
     /\ emitted[i].kind = "user-typing" /\ emitted[i].text = "false"
     /\ \E d \in emitted[i].rcpt :
           sockets[d].userId /= emitted[i].user /\ emitted[i].to = Room(sockets[d].userId)
     /\ \A c \in Sockets : sockets[c].userId = emitted[i].user => c \notin emitted[i].rcpt

(* -------------------------------- C23 --------------------------------- *)
\* C23: a malformed typing or stop-typing call (no receiverId, no payload,
\* or a sender without identity) is silently ignored: no user-typing event,
\* no error event, no failure in the server, no change of state.
C23_MalformedTypingIgnored ==
  [][\A c \in Sockets, isTyping \in BOOLEAN, data \in TypingPayloads :
        /\ \/ sockets[c].userId = None
           \/ ~data.given
           \/ data.receiverId = None
        /\ Typing(c, isTyping, data)
        => /\ emitted' = emitted
           /\ Alive'
           /\ OnlyEmits]_vars

(* -------------------------------- C24 --------------------------------- *)
\* the replies this step emits to connection c: message-sent or error
Replies(c) ==
  {i \in NewEvents :
     emitted'[i].to = c /\ emitted'[i].kind \in {"message-sent", "error"}}

\* the send-message handler numbered tid is suspended
Suspended(tid) == \E t \in InflightSends : t.tid = tid

\* the step ends the handler with exactly one reply to its connection:
\* message-sent with the persisted message, or an error naming a reason
OneReply(c) ==
  /\ Cardinality(Replies(c)) = 1
  /\ \A i \in Replies(c) :
        /\ emitted'[i].rcpt = IF Open(c) THEN {c} ELSE {}
        /\ IF emitted'[i].kind = "message-sent"
           THEN \E j \in 1..Len(messages') : messages'[j] = emitted'[i].msg
           ELSE emitted'[i].text /= ""

\* C24: every send-message event gets exactly one reply emitted to its
\* connection, message-sent (accepted and persisted) or an error naming the
\* reason, whatever the payload and whatever the outcome of the store calls:
\* the handler replies at once or suspends, a suspended handler emits no
\* reply until it ends, ends with exactly one, and does end.
C24_EverySendAnswered ==
  /\ [][/\ \A c \in Sockets, data \in SendPayloads :
             SendMessage(c, data) =>
               \/ OneReply(c) /\ tasks' = tasks
               \/ /\ Replies(c) = {}
                  /\ \E t \in tasks' \ tasks :
                        t.kind = "send" /\ t.sock = c /\ tasks' = tasks \cup {t}
        /\ \A t \in InflightSends :
             t \notin tasks' =>
               IF Suspended(t.tid)' THEN Replies(t.sock) = {}
               ELSE OneReply(t.sock)]_vars
  /\ \A tid \in 1..MaxInflight : Suspended(tid) ~> ~Suspended(tid)

\* one connection has been answered message-sent for one send and an error
\* for a send without payload, no store call having failed
C24_Witness ==
  /\ used.fail = 0 /\ tasks = {}
  /\ \E i, j \in 1..Len(emitted) :
        /\ emitted[i].kind = "message-sent" /\ emitted[i].rcpt /= {}
        /\ emitted[j].kind = "error" /\ emitted[j].rcpt = emitted[i].rcpt
        /\ emitted[j].text = "Failed to send message"

(* -------------------------------- C25 --------------------------------- *)
\* what the connections observe of a fanout: for each message event, its
\* name, the connections it reaches and the message it carries
Observed(events) ==
  [i \in {k \in 1..Len(events) : events[k].kind \in MessageKinds} |->
     [kind |-> events[i].kind, rcpt |-> events[i].rcpt,
      msg |-> [events[i].msg EXCEPT !.via = None]]]

\* C25: a send through the socket event and a send through the REST
\* endpoint are observationally equivalent for the same sender, receiver and
\* content: whenever a send-message handler fans a message out, the
\* connections observe what they would observe had the same message come
\* through the REST endpoint (receive-message in the receiver's room,
\* message-sent in the sender's room).
C25_RestAndSocketEquivalent ==
  [][\A t \in InflightSends :
        /\ t.pc = "populateReceiver"
        /\ SendPopulateReceiverDone(t, TRUE)
        => Observed(SubSeq(emitted', Len(emitted) + 1, Len(emitted')))
             = Observed(RestFanout(t))]_vars

(* -------------------------------- C26 --------------------------------- *)
\* the registry has an entry of user u whose handle is connection c
Registered(c, u) ==
  RegHas(connectedUsers, u) /\ Handle(connectedUsers, u) = c

\* C26: room membership and registry membership go together: in every
\* reachable state, a handshake handler being suspended or having failed
\* included, a connection is a member of room user_<id> exactly when the
\* registry has the entry of <id> for that connection.
C26_RoomAndRegistryAtomic ==
  \A c \in Sockets, u \in Users :
     Room(u) \in sockets[c].rooms <=> Registered(c, u)

(* -------------------------------- C27 --------------------------------- *)
\* the presence transitions in which a store call fails in this step: the
\* handshakes failing on user.save(), the disconnects failing on
\* User.findById or user.save()
FailedPresenceWrites ==
  {t \in tasks \ tasks' :
     /\ used'.fail > used.fail
     /\ \/ t.kind = "auth" /\ t.pc = "save"
        \/ t.kind = "disconnect"}

\* C27: when a store call fails during a presence transition the registry
\* mutation still proceeds: the handshake still records the entry of its
\* connection, the disconnect still removes the entry of its user.
C27_RegistryMutatedDespiteStoreFailure ==
  [][\A t \in FailedPresenceWrites :
        IF t.kind = "auth"
        THEN /\ RegHas(connectedUsers', t.uid)
             /\ Handle(connectedUsers', t.uid) = t.sock
        ELSE ~RegHas(connectedUsers', t.uid)]_vars

(* -------------------------------- C28 --------------------------------- *)
\* the open connections that are members of u's room
InRoom(u) == {c \in Sockets : Open(c) /\ Room(u) \in sockets[c].rooms}

\* C28: the fanout of every accepted send emits the persisted message first
\* as receive-message to the receiver's room, then as message-sent to the
\* sender's room: every connection in the sender's room receives
\* message-sent, not the issuing connection alone.
C28_MessageSentToSenderRoom ==
  [][\A t \in tasks :
        /\ t.kind \in {"send", "rest"} /\ t.pc = "populateReceiver"
        /\ SendPopulateReceiverDone(t, TRUE)
        => /\ Len(emitted') >= Len(emitted) + 2
           /\ emitted'[Len(emitted) + 1].kind = "receive-message"
           /\ emitted'[Len(emitted) + 1].msg = t.msg
           /\ emitted'[Len(emitted) + 1].rcpt = InRoom(t.msg.receiver)
           /\ emitted'[Len(emitted) + 2].kind = "message-sent"
           /\ emitted'[Len(emitted) + 2].msg = t.msg
           /\ emitted'[Len(emitted) + 2].rcpt = InRoom(t.msg.sender)
           /\ Persisted(t.msg.id)]_vars

(* -------------------------------- C29 --------------------------------- *)
\* C29: once a handshake for user U on another connection has replaced the
\* registry entry of connection c1, no send-message of c1 is accepted: while
\* U's entry has the handle of another connection, a send-message of c1 is
\* answered with an error and neither persisted nor fanned out.
C29_ReplacedConnectionCannotSend ==
  [][\A t \in AcceptedSends :
        /\ t.kind = "send"
        /\ Received(t.sock, "authenticated")
        /\ RegHas(connectedUsers, t.uid)
        => Handle(connectedUsers, t.uid) = t.sock]_vars

(* -------------------------------- C30 --------------------------------- *)
\* the messages this step inserts into the store
Inserted == {j \in 1..Len(messages') : j > Len(messages)}

\* C30: the sender of every message persisted through the socket path is
\* the identity of the issuing connection, socket.userId as its own
\* handshake set it, at the time the send is accepted; no field of the
\* payload changes it, what is persisted is what was accepted, and only a
\* handshake of the connection itself, for the subject of its token, changes
\* socket.userId.
C30_SenderIsConnectionIdentity ==
  [][/\ \A t \in AcceptedSends :
          t.kind = "send" =>
            /\ t.msg.sender = sockets[t.sock].userId
            /\ t.msg.sender \in Users
            /\ t.msg.via = t.sock
     /\ \A j \in Inserted :
          messages'[j].via \in Sockets =>
            \E t \in InflightSends :
               t.msg = messages'[j] /\ t.sock = messages'[j].via
     /\ \A c \in Sockets :
          sockets'[c].userId /= sockets[c].userId =>
            \E t \in tasks :
               /\ t.kind = "auth" /\ t.sock = c
               /\ t.uid = sockets'[c].userId]_vars

\* a message is persisted whose payload named another sender: it is
\* recorded under the identity of the connection that sent it
C30_Witness ==
  \E j \in 1..Len(messages) :
     /\ messages[j].via \in Sockets
     /\ messages[j].receiver = Forged.receiverId
     /\ messages[j].content = Forged.content
     /\ messages[j].sender /= Forged.sender
     /\ messages[j].sender = sockets[messages[j].via].userId


(* -------------------------------- C31 --------------------------------- *)
\* the user room of the identity a connection has now
OwnRooms(c) ==
  IF sockets[c].userId = None THEN {} ELSE {Room(sockets[c].userId)}

\* the connections whose handshakes have all completed and succeeded
Settled ==
  {c \in Sockets : /\ \A t \in tasks : t.kind = "auth" => t.sock /= c
                   /\ ~Received(c, "authentication-error")}

\* C31: in every reachable state a connection whose handshakes have all
\* completed successfully is a member of at most one user room, and that
\* room is the one of its current identity (socket.userId); after
\* successful handshakes as U1 and as U2 it is not in both rooms.
C31_OnlyRoomOfCurrentIdentity ==
  \A c \in Settled :
     /\ Cardinality(sockets[c].rooms) <= 1
     /\ sockets[c].rooms \subseteq OwnRooms(c)


(* -------------------------------- C32 --------------------------------- *)
\* a payload whose messageType is there and is not 'text'
OtherType(data) == data.given /\ data.messageType \notin {None, "text"}

\* the step answers connection c with one error and nothing else happens
RejectedWithError(c) ==
  /\ Len(emitted') = Len(emitted) + 1
  /\ emitted'[Len(emitted')].kind = "error"
  /\ emitted'[Len(emitted')].to = c
  /\ emitted'[Len(emitted')].rcpt = {c}
  /\ UNCHANGED <<messages, tasks, nextId, users, connectedUsers, sockets>>

\* C32: a send-message whose messageType is present and not 'text' is
\* answered with one error to the sending connection, persists nothing and
\* fans out nothing, whether or not the connection has an identity; every
\* message accepted or persisted has messageType 'text'.
C32_NonTextRejected ==
  [][/\ \A c \in Sockets, data \in SendPayloads :
          OtherType(data) /\ SendMessage(c, data) => RejectedWithError(c)
     /\ \A t \in AcceptedSends : t.msg.messageType = "text"
     /\ \A j \in 1..Len(messages') : messages'[j].messageType = "text"]_vars

\* a connection with an identity has been told that only text messages are
\* allowed, and nothing was persisted
C32_Witness ==
  /\ \E i \in 1..Len(emitted) :
        /\ emitted[i].kind = "error"
        /\ emitted[i].text = "Only text messages allowed"
        /\ emitted[i].rcpt /= {}
  /\ messages = <<>> /\ tasks = {}

====
